---- MODULE Spec2Model ----
(***************************************************************************)
(* Model of spotify-dj: the toggle entry point and its PID registry        *)
(* (src/src/toggle.ts), the watch loop runDjLoop (src/src/toggle.ts), the  *)
(* cancellable speech playback of tts.ts (src/unnamed/part_001, lines      *)
(* 99-203), the volume fade of src/src/spotify.ts and the key-value state  *)
(* of db.ts (src/unnamed/part_000).                                        *)
(*                                                                         *)
(* The module holds four specifications over one set of variables:         *)
(*   SpecTts    playAudio / cancelSpeech calls interleaved at their awaits *)
(*   SpecFade   withVolumeDip and fadeVolume under arbitrary delays        *)
(*   SpecLoop   one watcher process running runDjLoop                      *)
(*   SpecToggle toggle invocations, watchers and the registry file         *)
(* Each specification leaves the variables of the other parts unchanged.   *)
(***************************************************************************)
EXTENDS Integers, Sequences, FiniteSets, TLC

VARIABLES
    \* ---- tts.ts: module state of one JavaScript process
    currentProcess,    \* let currentProcess: Subprocess | null
    currentAudioPath,  \* let currentAudioPath: string | null
    player,            \* the afplay subprocesses, by the call that spawned them
    files,             \* the temp audio files that exist on disk
    playCall,          \* the playAudio calls in flight (one record per call)
    cancelCall,        \* the stand-alone cancelSpeech calls in flight
    \* ---- spotify.ts: the player's volume and one withVolumeDip call
    spotifyVolume,     \* Spotify's `sound volume` (0-100)
    lastSet,           \* the value of the last `set sound volume to` issued
    dip,               \* the withVolumeDip call: position, originalVolume
    fade,              \* the fadeVolume call: from, to, step, elapsed time
    \* ---- runDjLoop in one watcher process, db.ts and the track source
    nowPlaying,        \* the track Spotify is playing (Null: nothing playing)
    lastTrackId,       \* db.ts: state row "last_track_id"
    currentlyAnnouncingTrack,  \* let currentlyAnnouncingTrack (toggle.ts:138)
    loop,              \* runDjLoop: position and locals of the current tick
    session,           \* history: what was announced since a new id was polled
    midSpeech,         \* history: a track change made while an intro was playing
    \* ---- toggle.ts: the registry file, the processes and the toggle runs
    pidFile,           \* ~/.config/spotify-dj.pid: whether it exists, its characters
    proc,              \* the processes by pid: watchers and their shutdown handlers
    tog,               \* the toggle invocations in flight
    overlap,           \* history: two processes' registry accesses have overlapped
    kills,             \* the number of watchers killed without their handler
    stopped,           \* history: killAllDaemons has returned, no start since
    starts,            \* history: the pids appended since the last stop
    prune,             \* one call of getAllDaemonPids followed on its own
    shut               \* history: the signal a watcher got, the playback active then

ttsVars == <<currentProcess, currentAudioPath, player, files, playCall, cancelCall>>
fadeVars == <<spotifyVolume, lastSet, dip, fade>>
loopVars == <<nowPlaying, lastTrackId, currentlyAnnouncingTrack, loop, session, midSpeech>>

toggleVars == <<pidFile, proc, tog, overlap, kills, stopped, starts>>

extraVars == <<prune, shut>>

vars == <<ttsVars, fadeVars, loopVars, toggleVars, extraVars>>

exceptTts == <<fadeVars, loopVars, toggleVars, extraVars>>
exceptFade == <<ttsVars, loopVars, toggleVars, extraVars>>
exceptToggle == <<ttsVars, fadeVars, loopVars, extraVars>>

(***************************************************************************)
(* Bounds                                                                  *)
(***************************************************************************)
\* playAudio calls in flight at once (each with its own temp file and subprocess)
MaxPlayCalls == 2
\* stand-alone cancelSpeech calls in flight at once
MaxCancelCalls == 1

\* delays of a volume-set call or of a sleep: multiples of JitterUnit ms up to
\* MaxJitter units, and one delay as long as the whole fade
JitterUnit == 7
MaxJitter == 5

\* distinct tracks the source can play
MaxTracks == 2

\* process ids the system hands out (one decimal digit each)
MaxPid == 2
\* toggle invocations made, with any overlap between them
MaxToggles == 3
\* watchers killed without their shutdown handler running
MaxKills == 1
MaxOthers == 1
\* characters of a registry file given to a call of getAllDaemonPids
MaxFileLen == 5

PlayIds == 1..MaxPlayCalls
CancelIds == 1..MaxCancelCalls

\* null for currentProcess / currentAudioPath (ids are positive)
Null == 0

(***************************************************************************)
(* tts.ts  (src/unnamed/part_001, lines 99-203)                            *)
(***************************************************************************)

\* export function isSpeaking(): boolean { return currentProcess !== null }
isSpeaking == currentProcess # Null

\* A cancelSpeech that clears the reference without killing the subprocess.
KillPlayerSkipped(pl, p) == pl

\* currentProcess.kill(): SIGTERM to the subprocess. A subprocess that has
\* already exited keeps its exit code.
KillPlayer(pl, p) ==
    IF p # Null /\ pl[p] = "running" THEN [pl EXCEPT ![p] = "killed"] ELSE pl

\* The synchronous head of cancelSpeech (lines 134-139): kill and clear the
\* process, then start unlink(currentAudioPath) when a path is recorded.
\* Yields the path whose unlink is awaited (Null: nothing to await).
CancelHeadTarget == currentAudioPath

CancelHead ==
    /\ player' = KillPlayer(player, currentProcess)
    /\ currentProcess' = Null

\* What the continuation of cancelSpeech after `await unlink(...)` stores in
\* currentAudioPath (line 140).
CancelTailPath == Null

\* const wasCompleted = exitCode === 0 && currentProcess === proc  (line 182)
WasCompletedNoGuard(c) == player[c] = "exit0"

WasCompleted(c) == player[c] = "exit0" /\ currentProcess = c

\* History: the session of call c was cleared or replaced by another call
\* while c was waiting for its subprocess.
Swap(actor) ==
    [c \in PlayIds |->
        [playCall[c] EXCEPT !.swapped =
            playCall[c].swapped
            \/ (actor # c /\ currentProcess = c /\ currentProcess' # c)]]

IdleCall == [pc |-> "idle", target |-> Null, wasCompleted |-> FALSE, swapped |-> FALSE]

\* A call slot can hold a new call when its previous call has ended and nothing
\* refers to that call's file or subprocess any more (file names are unique:
\* `spotify-dj-${Date.now()}.wav`, line 156).
FreeSlot(c) ==
    /\ playCall[c].pc \in {"idle", "done", "threw", "synthFailed"}
    /\ currentAudioPath # c
    /\ currentProcess # c
    /\ c \notin files
    /\ \A b \in PlayIds : playCall[b].target # c
    /\ \A k \in CancelIds : cancelCall[k].target # c

\* generateSpeech (lines 145-161): the synthesis request, then the temp file
\* is written and its path returned; a failed request throws and writes nothing.
GenerateSpeech(c, ok) ==
    /\ FreeSlot(c)
    /\ \A b \in PlayIds : b < c => ~FreeSlot(b)
    /\ files' = IF ok THEN files \cup {c} ELSE files
    /\ playCall' = [playCall EXCEPT ![c] = [IdleCall EXCEPT !.pc = IF ok THEN "ready" ELSE "synthFailed"]]
    /\ player' = [player EXCEPT ![c] = "none"]
    /\ UNCHANGED <<currentProcess, currentAudioPath, cancelCall>>

\* playAudio, line 169: await cancelSpeech() runs the head of cancelSpeech.
PlayAudioBegin(c) ==
    /\ playCall[c].pc = "ready"
    /\ CancelHead
    /\ playCall' = [Swap(c) EXCEPT
                      ![c].pc = IF CancelHeadTarget # Null THEN "cancelUnlink" ELSE "cancelRet",
                      ![c].target = CancelHeadTarget]
    /\ UNCHANGED <<currentAudioPath, files, cancelCall>>

\* cancelSpeech resumes after its unlink (lines 139-140).
PlayAudioCancelUnlinked(c) ==
    /\ playCall[c].pc = "cancelUnlink"
    /\ files' = files \ {playCall[c].target}
    /\ currentAudioPath' = CancelTailPath
    /\ playCall' = [playCall EXCEPT ![c].pc = "cancelRet", ![c].target = Null]
    /\ UNCHANGED <<currentProcess, player, cancelCall>>

\* playAudio resumes after await cancelSpeech() (lines 171-181): records the
\* path, spawns afplay and awaits its exit. spawn throws when the executable
\* cannot be started: the call ends there, with nothing after line 174 run.
PlayAudioInstall(c, spawned) ==
    /\ playCall[c].pc = "cancelRet"
    /\ currentAudioPath' = c
    /\ IF spawned
         THEN /\ player' = [player EXCEPT ![c] = "running"]
              /\ currentProcess' = c
         ELSE UNCHANGED <<player, currentProcess>>
    /\ playCall' = [Swap(c) EXCEPT ![c].pc = IF spawned THEN "wait" ELSE "threw"]
    /\ UNCHANGED <<files, cancelCall>>

\* The subprocess ends by itself: exit code 0 or an error code.
PlayerExit(c, ok) ==
    /\ player[c] = "running"
    /\ player' = [player EXCEPT ![c] = IF ok THEN "exit0" ELSE "exitErr"]
    /\ UNCHANGED <<currentProcess, currentAudioPath, files, playCall, cancelCall>>

\* playAudio resumes after await proc.exited (lines 181-187).
PlayAudioExited(c) ==
    /\ playCall[c].pc = "wait"
    /\ player[c] \in {"exit0", "exitErr", "killed"}
    /\ currentProcess' = Null
    /\ currentAudioPath' = Null
    /\ playCall' = [Swap(c) EXCEPT ![c].pc = "unlink",
                                   ![c].wasCompleted = WasCompleted(c)]
    /\ UNCHANGED <<player, files, cancelCall>>

\* playAudio resumes after await unlink(audioPath) and returns (lines 187-189).
PlayAudioReturn(c) ==
    /\ playCall[c].pc = "unlink"
    /\ files' = files \ {c}
    /\ playCall' = [playCall EXCEPT ![c].pc = "done"]
    /\ UNCHANGED <<currentProcess, currentAudioPath, player, cancelCall>>

\* A stand-alone cancelSpeech() call (lines 133-142), up to its await.
CancelSpeechBegin(k) ==
    /\ cancelCall[k].pc = "idle"
    /\ \A j \in CancelIds : j < k => cancelCall[j].pc # "idle"
    /\ CancelHead
    /\ cancelCall' = [cancelCall EXCEPT
                        ![k] = [pc |-> IF CancelHeadTarget # Null THEN "unlink" ELSE "idle",
                                target |-> CancelHeadTarget]]
    /\ playCall' = Swap(Null)
    /\ UNCHANGED <<currentAudioPath, files>>

CancelSpeechUnlinked(k) ==
    /\ cancelCall[k].pc = "unlink"
    /\ files' = files \ {cancelCall[k].target}
    /\ currentAudioPath' = CancelTailPath
    /\ cancelCall' = [cancelCall EXCEPT ![k] = [pc |-> "idle", target |-> Null]]
    /\ UNCHANGED <<currentProcess, player, playCall>>

TtsIdle ==
    /\ currentProcess = Null
    /\ currentAudioPath = Null
    /\ player = [c \in PlayIds |-> "none"]
    /\ files = {}
    /\ playCall = [c \in PlayIds |-> IdleCall]
    /\ cancelCall = [k \in CancelIds |-> [pc |-> "idle", target |-> Null]]

(***************************************************************************)
(* config.ts and spotify.ts: withVolumeDip and fadeVolume                  *)
(***************************************************************************)
DJ_SPEAKING_VOLUME == 50
FADE_DURATION_MS == 300
FADE_STEPS == 10

\* no volume-set call issued yet
NoVolume == -1

Min(a, b) == IF a < b THEN a ELSE b
Max(a, b) == IF a > b THEN a ELSE b

\* Math.round of the rational n / d (d > 0): floor(n/d + 1/2)
Round(n, d) == (2 * n + d) \div (2 * d)

\* setSpotifyVolume (lines 77-80): the value sent to Spotify for n / d
Clamped(n, d) == Max(0, Min(100, Round(n, d)))

\* const stepInterval = FADE_DURATION_MS / FADE_STEPS  (line 84)
stepInterval == FADE_DURATION_MS \div FADE_STEPS

\* A fade driven by the clock alone.
ProgressNumTimeOnly(elapsed, step) == Min(elapsed, FADE_DURATION_MS)

\* Lines 89-94, as a fraction of FADE_DURATION_MS: max(progress, step / FADE_STEPS)
\* with progress = min(elapsed / FADE_DURATION_MS, 1).
ProgressNum(elapsed, step) == Max(Min(elapsed, FADE_DURATION_MS), step * stepInterval)

\* targetVolume = from + (to - from) * max(progress, step / FADE_STEPS), sent
\* through setSpotifyVolume (lines 93-96)
StepVolume(from, to, elapsed, step) ==
    Clamped(FADE_DURATION_MS * from + (to - from) * ProgressNum(elapsed, step),
            FADE_DURATION_MS)

\* await setSpotifyVolume(to)  (line 107)
FinalVolumeFrom(from, to) == Clamped(from, 1)

FinalVolume(from, to) == Clamped(to, 1)

\* Time is counted from the fade's startTime; once FADE_DURATION_MS has passed
\* every later reading behaves the same (progress 1, no sleep), so it stops there.
Later(elapsed, d) == Min(elapsed + d, FADE_DURATION_MS)

Jitter == {k * JitterUnit : k \in 0..MaxJitter} \cup {FADE_DURATION_MS}

IdleFade == [pc |-> "idle", from |-> 0, to |-> 0, step |-> 0, elapsed |-> 0, late |-> FALSE]

\* fadeVolume(from, to) up to its first volume-set call (lines 83-96)
StartFade(from, to) ==
    [pc |-> "set", from |-> from, to |-> to, step |-> 1, elapsed |-> 0, late |-> FALSE]

\* if (timeUntilNextStep > 5) await Bun.sleep(timeUntilNextStep)  (lines 99-103)
MustSleep(step, elapsed) == step * stepInterval - elapsed > 5

\* The loop moves to its next step, or leaves the loop for the final call.
NextStep(f) ==
    IF f.step = FADE_STEPS THEN [f EXCEPT !.pc = "final"]
    ELSE [f EXCEPT !.pc = "set", !.step = f.step + 1]

\* What withVolumeDip does when fn has settled (lines 120-125): the finally
\* block fades back up whether fn returned or threw.
DipAfterFnNoFinally(ok) == IF ok THEN "fadeUp" ELSE "threwFn"

DipAfterFn(ok) == "fadeUp"

\* What withVolumeDip does when a fade has ended.
DipAfterFade(d) ==
    IF d.pc = "fadeDown" THEN [d EXCEPT !.pc = "fn"]
    ELSE [d EXCEPT !.pc = IF d.fnThrew THEN "threwFn" ELSE "returned"]

\* A volume-set call of the loop returns after d ms (line 96), or osascript fails.
FadeSetDone(d, ok) ==
    /\ fade.pc = "set"
    /\ IF ok
         THEN LET v == StepVolume(fade.from, fade.to, fade.elapsed, fade.step)
                  e == Later(fade.elapsed, d)
                  f == [fade EXCEPT !.elapsed = e,
                                    !.late = fade.late \/ e > fade.step * stepInterval]
              IN  /\ spotifyVolume' = v
                  /\ lastSet' = v
                  /\ fade' = IF MustSleep(fade.step, e) THEN [f EXCEPT !.pc = "sleep"]
                             ELSE NextStep(f)
                  /\ UNCHANGED dip
         ELSE /\ fade' = [fade EXCEPT !.pc = "failed"]
              /\ dip' = [dip EXCEPT !.pc = "threwIo"]
              /\ UNCHANGED <<spotifyVolume, lastSet>>

\* Bun.sleep(timeUntilNextStep) ends at the step boundary or j ms after it.
FadeSleepDone(j) ==
    /\ fade.pc = "sleep"
    /\ fade' = NextStep([fade EXCEPT !.elapsed = Later(fade.step * stepInterval, j)])
    /\ UNCHANGED <<spotifyVolume, lastSet, dip>>

\* The final setSpotifyVolume(to) returns (line 107) and fadeVolume with it.
FadeFinalDone(ok) ==
    /\ fade.pc = "final"
    /\ IF ok
         THEN /\ spotifyVolume' = FinalVolume(fade.from, fade.to)
              /\ lastSet' = FinalVolume(fade.from, fade.to)
              /\ fade' = [fade EXCEPT !.pc = "done"]
              /\ dip' = DipAfterFade(dip)
         ELSE /\ fade' = [fade EXCEPT !.pc = "failed"]
              /\ dip' = [dip EXCEPT !.pc = "threwIo"]
              /\ UNCHANGED <<spotifyVolume, lastSet>>

\* withVolumeDip(dipTo, fn) reads the volume and starts the fade down (lines
\* 115-118); a failed osascript call throws before anything is changed.
DipBegin(dipTo, ok) ==
    /\ dip.pc = "idle"
    /\ IF ok
         THEN /\ dip' = [dip EXCEPT !.pc = "fadeDown", !.originalVolume = spotifyVolume,
                                    !.dipTo = dipTo]
              /\ fade' = StartFade(spotifyVolume, dipTo)
         ELSE /\ dip' = [dip EXCEPT !.pc = "threwIo"]
              /\ UNCHANGED fade
    /\ UNCHANGED <<spotifyVolume, lastSet>>

\* fn() settles: it returns (ok) or throws (lines 120-125).
DipFnSettled(ok) ==
    /\ dip.pc = "fn"
    /\ dip' = [dip EXCEPT !.pc = DipAfterFn(ok), !.fnThrew = ~ok]
    /\ fade' = IF DipAfterFn(ok) = "fadeUp" THEN StartFade(dip.dipTo, dip.originalVolume)
               ELSE fade
    /\ UNCHANGED <<spotifyVolume, lastSet>>

IdleDip == [pc |-> "idle", originalVolume |-> 0, dipTo |-> 0, fnThrew |-> FALSE]

\* Volumes the user may have set before the announcement.
Volumes == {0, 37, DJ_SPEAKING_VOLUME, 100}

FadeIdle ==
    /\ lastSet = NoVolume
    /\ dip = IdleDip
    /\ fade = IdleFade

(***************************************************************************)
(* runDjLoop (src/src/toggle.ts, lines 137-202) with db.ts                 *)
(***************************************************************************)
TrackIds == 1..MaxTracks

\* { name: track.name, artist: track.artist }: the name and artist of track t
\* (a track's name and artist are told apart by the track they belong to)
NameOf(t) == [name |-> t, artist |-> t]

\* getLastTrackId / setLastTrackId (part_000, lines 72-79)
getLastTrackId == lastTrackId

\* if (track.id !== lastTrackId)  (line 161)
TrackChangedAlways(id, last) == TRUE

TrackChanged(id, last) == id # last

\* const djContext = wasInterrupted ? { wasInterrupted: true, interruptedTrack } : {}
DjContext(wasInterrupted, interruptedTrack) ==
    IF wasInterrupted
      THEN [wasInterrupted |-> TRUE, interruptedTrack |-> interruptedTrack]
      ELSE [wasInterrupted |-> FALSE, interruptedTrack |-> NameOf(Null)]

IdleLoop ==
    [pc |-> "poll", track |-> Null, wasInterrupted |-> FALSE,
     interruptedTrack |-> NameOf(Null), ctx |-> DjContext(FALSE, NameOf(Null)),
     call |-> Null, target |-> Null, thrown |-> ""]

NoSession ==
    [id |-> Null, gen |-> 0, play |-> 0, repeat |-> FALSE, nothing |-> FALSE,
     restart |-> FALSE]
NoMidSpeech == [from |-> Null, to |-> Null, call |-> Null]

\* History of the polls: a poll of an id other than the last one polled opens
\* a new session; later polls of the same id and of nothing are noted in it.
Observe(t) ==
    IF t = Null THEN [session EXCEPT !.nothing = session.id # Null]
    ELSE IF t # session.id THEN [NoSession EXCEPT !.id = t]
    ELSE [session EXCEPT !.repeat = TRUE]

\* A tick that issues the commentary request without storing the marker.
AnnounceUnmarked(l) ==
    /\ UNCHANGED lastTrackId
    /\ currentlyAnnouncingTrack' = NameOf(l.track)
    /\ loop' = [l EXCEPT !.pc = "commentary",
                         !.ctx = DjContext(l.wasInterrupted, l.interruptedTrack)]

\* Lines 169-183: the marker is stored, the context built and the commentary
\* request issued.
Announce(l) ==
    /\ lastTrackId' = l.track
    /\ currentlyAnnouncingTrack' = NameOf(l.track)
    /\ loop' = [l EXCEPT !.pc = "commentary",
                         !.ctx = DjContext(l.wasInterrupted, l.interruptedTrack)]

\* The track source changes (the user or Spotify moves to another track, or
\* playback stops).
SourceChange(t) ==
    /\ t # nowPlaying
    /\ nowPlaying' = t
    /\ midSpeech' =
         IF /\ t # Null /\ loop.call # Null /\ player[loop.call] = "running"
            /\ loop.track # t
         THEN [from |-> loop.track, to |-> t, call |-> loop.call]
         ELSE NoMidSpeech
    /\ UNCHANGED <<lastTrackId, currentlyAnnouncingTrack, loop, session>>

\* Lines 156-167: getCurrentTrack() settles and the tick runs up to its next
\* await. A failed osascript call throws out of runDjLoop.
LoopPolled(ok) ==
    /\ loop.pc = "poll"
    /\ IF ~ok
         THEN /\ loop' = [loop EXCEPT !.pc = "crashed", !.thrown = "getCurrentTrack"]
              /\ UNCHANGED <<lastTrackId, currentlyAnnouncingTrack, session,
                             currentProcess, player>>
         ELSE IF nowPlaying # Null /\ TrackChanged(nowPlaying, getLastTrackId)
         THEN LET l == [loop EXCEPT !.track = nowPlaying,
                                    !.wasInterrupted = isSpeaking,
                                    !.interruptedTrack = currentlyAnnouncingTrack,
                                    !.call = Null]
              IN  IF isSpeaking
                    THEN /\ CancelHead
                         /\ loop' = [l EXCEPT !.pc = IF CancelHeadTarget # Null
                                                       THEN "cancelUnlink" ELSE "cancelRet",
                                              !.target = CancelHeadTarget]
                         /\ session' = Observe(nowPlaying)
                         /\ UNCHANGED <<lastTrackId, currentlyAnnouncingTrack>>
                    ELSE /\ Announce(l)
                         /\ session' = [Observe(nowPlaying) EXCEPT !.gen = @ + 1]
                         /\ UNCHANGED <<currentProcess, player>>
         ELSE /\ loop' = [loop EXCEPT !.pc = "sleep", !.track = nowPlaying]
              /\ session' = Observe(nowPlaying)
              /\ UNCHANGED <<lastTrackId, currentlyAnnouncingTrack, currentProcess, player>>
    /\ UNCHANGED <<nowPlaying, midSpeech, currentAudioPath, files, playCall, cancelCall>>

\* The continuations that have no outcome to choose: cancelSpeech resumes
\* after its unlink (part_001:139-141), the tick resumes after await
\* cancelSpeech() (lines 166-183), and the next tick starts after
\* Bun.sleep(1000) (line 200).
LoopResumed ==
    /\ loop.pc \in {"cancelUnlink", "cancelRet", "sleep"}
    /\ CASE loop.pc = "cancelUnlink" ->
              /\ files' = files \ {loop.target}
              /\ currentAudioPath' = CancelTailPath
              /\ loop' = [loop EXCEPT !.pc = "cancelRet", !.target = Null]
              /\ UNCHANGED <<lastTrackId, currentlyAnnouncingTrack, session>>
         [] loop.pc = "cancelRet" ->
              /\ Announce(loop)
              /\ session' = [session EXCEPT !.gen = @ + 1]
              /\ UNCHANGED <<files, currentAudioPath>>
         [] loop.pc = "sleep" ->
              /\ loop' = [loop EXCEPT !.pc = "poll"]
              /\ UNCHANGED <<lastTrackId, currentlyAnnouncingTrack, session, files,
                             currentAudioPath>>
    /\ UNCHANGED <<nowPlaying, midSpeech, currentProcess, player, playCall, cancelCall>>

\* generateDjCommentary settles (lines 176-193): on success the announcement is
\* recorded and generateSpeech is called; a failed request throws out of
\* runDjLoop.
LoopCommentary(ok) ==
    /\ loop.pc = "commentary"
    /\ loop' = [loop EXCEPT !.pc = IF ok THEN "synth" ELSE "crashed",
                            !.thrown = IF ok THEN "" ELSE "generateDjCommentary"]
    /\ midSpeech' = NoMidSpeech
    /\ UNCHANGED <<nowPlaying, lastTrackId, currentlyAnnouncingTrack, session>>

\* generateSpeech settles (line 193) and withVolumeDip is called (line 194).
LoopSynth(c, ok) ==
    /\ loop.pc = "synth"
    /\ GenerateSpeech(c, ok)
    /\ loop' = [loop EXCEPT !.pc = IF ok THEN "dip" ELSE "crashed",
                            !.call = IF ok THEN c ELSE Null,
                            !.thrown = IF ok THEN "" ELSE "generateSpeech"]
    /\ UNCHANGED <<nowPlaying, lastTrackId, currentlyAnnouncingTrack, session, midSpeech>>

\* withVolumeDip has read the volume (spotify.ts:115).
\* A tick that starts the dip while the synthesis request is still pending.
LoopDipBeginEarly(ok) ==
    /\ loop.pc \in {"synth", "dip"}
    /\ DipBegin(DJ_SPEAKING_VOLUME, ok)

LoopDipBegin(ok) ==
    /\ loop.pc = "dip"
    /\ DipBegin(DJ_SPEAKING_VOLUME, ok)

\* fn = () => playAudio(audioPath) is called once the fade down has ended.
LoopPlayBegin ==
    /\ loop.pc = "dip" /\ dip.pc = "fn"
    /\ PlayAudioBegin(loop.call)

\* playAudio records the path and spawns afplay: the playback starts.
LoopPlayInstall(spawned) ==
    /\ loop.pc = "dip"
    /\ PlayAudioInstall(loop.call, spawned)
    /\ session' = [session EXCEPT !.play = IF spawned THEN @ + 1 ELSE @]

\* An unlink awaited by playAudio has ended: the one of its cancelSpeech
\* (part_001:139) or its own (part_001:187).
LoopPlayUnlinked(c) ==
    IF playCall[c].pc = "cancelUnlink" THEN PlayAudioCancelUnlinked(c)
    ELSE PlayAudioReturn(c)

\* A tick that calls playAudio without awaiting it.
LoopFnSettledUnawaited ==
    /\ loop.pc = "dip"
    /\ playCall[loop.call].pc # "ready"
    /\ DipFnSettled(TRUE)

\* playAudio has returned or thrown: fn settles inside withVolumeDip.
LoopFnSettled ==
    /\ loop.pc = "dip"
    /\ playCall[loop.call].pc \in {"done", "threw"}
    /\ DipFnSettled(playCall[loop.call].pc = "done")

\* withVolumeDip has ended (lines 194-200): after a normal return the tick
\* clears currentlyAnnouncingTrack and sleeps; an error thrown by it (by fn
\* or by a volume call) throws out of runDjLoop.
LoopDipEnded ==
    /\ loop.pc = "dip"
    /\ dip.pc \in {"returned", "threwFn", "threwIo"}
    /\ IF dip.pc = "returned"
         THEN /\ currentlyAnnouncingTrack' = NameOf(Null)
              /\ loop' = [loop EXCEPT !.pc = "sleep", !.call = Null]
         ELSE /\ loop' = [loop EXCEPT !.pc = "crashed", !.thrown = "withVolumeDip"]
              /\ UNCHANGED currentlyAnnouncingTrack
    /\ dip' = IdleDip
    /\ fade' = IdleFade
    /\ UNCHANGED <<spotifyVolume, lastSet, nowPlaying, lastTrackId, session, midSpeech>>

LoopIdle ==
    /\ currentlyAnnouncingTrack = NameOf(Null)
    /\ loop = IdleLoop
    /\ session = NoSession
    /\ midSpeech = NoMidSpeech

(***************************************************************************)
(* toggle.ts: the registry file and the toggle entry point (lines 22-135), *)
(* the shutdown handlers of a watcher (lines 143-153)                      *)
(***************************************************************************)
Pids == 1..MaxPid
ToggleIds == 1..MaxToggles

\* The file's characters are decimal digits and the newline.
NL == 10
\* Number.parseInt of a line without digits
NaN == -1

NoFile == [exists |-> FALSE, content |-> <<>>]

\* content.split("\n"): the lines, the one after the last newline included
RECURSIVE SplitFrom(_, _, _)
SplitFrom(chars, line, lines) ==
    IF chars = <<>> THEN Append(lines, line)
    ELSE IF Head(chars) = NL THEN SplitFrom(Tail(chars), <<>>, Append(lines, line))
    ELSE SplitFrom(Tail(chars), Append(line, Head(chars)), lines)

Split(chars) == SplitFrom(chars, <<>>, <<>>)

\* Number.parseInt(line.trim(), 10)
RECURSIVE ParseFrom(_, _)
ParseFrom(digits, n) ==
    IF digits = <<>> THEN n ELSE ParseFrom(Tail(digits), 10 * n + Head(digits))

ParseInt(line) == IF line = <<>> THEN NaN ELSE ParseFrom(line, 0)

\* `${pid}`: the decimal digits of pid
RECURSIVE Digits(_)
Digits(n) == IF n < 10 THEN <<n>> ELSE Digits(n \div 10) \o <<n % 10>>

\* pids.join("\n")
RECURSIVE JoinNoNewline(_)
JoinNoNewline(pids) ==
    IF pids = <<>> THEN <<>> ELSE Digits(pids[1]) \o JoinNoNewline(Tail(pids))

RECURSIVE Join(_)
Join(pids) ==
    IF pids = <<>> THEN <<>>
    ELSE IF Len(pids) = 1 THEN Digits(pids[1])
    ELSE Digits(pids[1]) \o <<NL>> \o Join(Tail(pids))

\* isProcessRunning (lines 25-32): process.kill(pid, 0) succeeds for every
\* process that exists, a watcher running its shutdown handler included.
IsProcessRunningInverted(pid) == ~(pid \in Pids /\ proc[pid].stage # "free")

isProcessRunning(pid) == pid \in Pids /\ proc[pid].stage # "free"

\* Lines 38-42: the pids of the file's lines that parse and are running
ParsePids(chars) ==
    LET lines == Split(chars)
        nums == [i \in 1..Len(lines) |-> ParseInt(lines[i])]
    IN  SelectSeq(nums, LAMBDA n : n # NaN /\ isProcessRunning(n))

\* What isAnyDaemonRunning() returns when called on the registry as it is.
isAnyDaemonRunning == pidFile.exists /\ ParsePids(pidFile.content) # <<>>

\* const daemonRunning = isAnyDaemonRunning()  (lines 55-57, 110-112)
DaemonRunningOffByOne(pids) == Len(pids) > 1

DaemonRunning(pids) == Len(pids) > 0

\* A start that writes the file instead of appending to it.
AppendedReplacing(file, pid) ==
    [exists |-> TRUE, content |-> Digits(pid) \o <<NL>>]

\* appendFileSync(PID_FILE, `${pid}\n`)  (lines 60-62): creates the file when
\* it does not exist
Appended(file, pid) ==
    [exists |-> TRUE, content |-> file.content \o Digits(pid) \o <<NL>>]

\* unlinkSync(PID_FILE)  (line 79)
UnlinkedKept(file) == file

Unlinked(file) == NoFile

\* One file-system call of getAllDaemonPids (lines 35-52), removePidFile
\* (77-81) included. phase names the call to make; the result names the next
\* call ("ret": the function returns pids, "throw": the call threw).
GetAllStep(phase, pids) ==
    CASE phase = "exists" ->
           [phase |-> IF pidFile.exists THEN "read" ELSE "ret", pids |-> <<>>, file |-> pidFile]
      [] phase = "read" ->
           IF pidFile.exists
             THEN [phase |-> "write", pids |-> ParsePids(pidFile.content), file |-> pidFile]
             ELSE [phase |-> "throw", pids |-> <<>>, file |-> pidFile]
      [] phase = "write" ->
           IF pids # <<>>
             THEN [phase |-> "ret", pids |-> pids,
                   file |-> [exists |-> TRUE, content |-> Join(pids)]]
             ELSE [phase |-> IF pidFile.exists THEN "unlink" ELSE "ret", pids |-> pids,
                   file |-> pidFile]
      [] phase = "unlink" ->
           IF pidFile.exists THEN [phase |-> "ret", pids |-> pids, file |-> Unlinked(pidFile)]
           ELSE [phase |-> "throw", pids |-> pids, file |-> pidFile]

\* start is history: "clean" or "raced" for a watcher whose pid a start has
\* appended with no stop under way since then ("raced": another process was
\* accessing the registry during that start), "none" otherwise.
FreeProc == [stage |-> "free", phase |-> "", pids |-> <<>>, start |-> "none"]
IdleToggle == [stage |-> "idle", phase |-> "", pids |-> <<>>, child |-> Null, clean |-> FALSE]
\* The toggle process has exited.
DoneToggle == [IdleToggle EXCEPT !.stage = "done"]

\* A process is in the middle of a registry access: it has made a call on the
\* file and has calls on it still to make.
TogMidAccess(t) == tog[t].stage \notin {"idle", "done"} /\ ~(tog[t].stage = "check" /\ tog[t].phase = "exists")
ProcMidAccess(p) ==
    \/ proc[p].stage = "rm1" /\ proc[p].phase # "exists"
    \/ proc[p].stage = "rm2"

OthersMidAccess(isTog, id) ==
    \/ \E t \in ToggleIds : ~(isTog /\ t = id) /\ TogMidAccess(t)
    \/ \E p \in Pids : ~(~isTog /\ p = id) /\ ProcMidAccess(p)

\* History kept with every call on the registry file made by process id.
Accessed(isTog, id) == overlap' = (overlap \/ OthersMidAccess(isTog, id))

\* The toggles other than `id` that are in the middle of their access lose
\* their `clean` mark.
Disturb(tg, isTog, id) ==
    [t \in ToggleIds |->
        IF (isTog /\ t = id) \/ ~TogMidAccess(t) THEN tg[t]
        ELSE [tg[t] EXCEPT !.clean = FALSE]]

\* A watcher gets SIGTERM: its handler (lines 143-147) starts; it awaits
\* cancelSpeech() and then calls removeOwnPid(), whose first call on the file
\* is the next thing the process does to the registry.
Signalled(pr, pids) ==
    [p \in Pids |->
        IF (\E i \in 1..Len(pids) : pids[i] = p) /\ pr[p].stage = "run"
          THEN [pr[p] EXCEPT !.stage = "rm1", !.phase = "exists"]
        ELSE IF (\E i \in 1..Len(pids) : pids[i] = p) /\ pr[p].stage = "other"
          THEN [pr[p] EXCEPT !.stage = "otherSignalled"]
          ELSE pr[p]]

\* A stop is under way: the watchers registered so far are no longer covered
\* by "no stop has been executed".
StopNoted(pr) ==
    [p \in Pids |-> [pr[p] EXCEPT !.start = "none"]]

\* History of the starts: the pids appended by appendDaemonPid (line 61)
\* since the last stop for a watcher that has not been killed, and whether the run of appends was left alone: the
\* file was absent or ended in a newline before the first of them, and no
\* other call has changed the file since.
NoStarts == [pids |-> <<>>, clean |-> TRUE]
EndsLine(file) ==
    \/ ~file.exists
    \/ file.content = <<>>
    \/ file.content[Len(file.content)] = NL
StartsAfter(file) ==
    IF file # pidFile /\ starts.pids # <<>> THEN [starts EXCEPT !.clean = FALSE] ELSE starts

\* The user runs the toggle command (lines 106-110); the invocations are
\* numbered in the order they start.
ToggleInvoke(t) ==
    /\ tog[t].stage = "idle"
    /\ \A u \in ToggleIds : u < t => tog[u].stage # "idle"
    /\ tog' = [tog EXCEPT ![t] = [IdleToggle EXCEPT !.stage = "check", !.phase = "exists"]]
    /\ UNCHANGED <<pidFile, proc, overlap, kills, stopped, starts>>

\* One call of getAllDaemonPids made by a toggle: for isAnyDaemonRunning
\* (line 110, stage "check") or inside killAllDaemons (line 85, stage "kill").
\* A call that throws ends the toggle process.
ToggleGetAll(t) ==
    /\ tog[t].stage \in {"check", "kill"}
    /\ LET r == GetAllStep(tog[t].phase, tog[t].pids)
           first == tog[t].stage = "check" /\ tog[t].phase = "exists"
           me == [tog[t] EXCEPT !.clean = IF first THEN ~OthersMidAccess(TRUE, t) ELSE @]
           next ==
             IF r.phase = "throw" THEN DoneToggle
             ELSE IF r.phase # "ret" THEN [me EXCEPT !.phase = r.phase, !.pids = r.pids]
             ELSE IF tog[t].stage = "kill"
               THEN [me EXCEPT !.stage = "signal", !.phase = "", !.pids = r.pids]
             ELSE IF DaemonRunning(r.pids)
               THEN [me EXCEPT !.stage = "kill", !.phase = "exists", !.pids = <<>>,
                               !.clean = FALSE]
             ELSE [me EXCEPT !.stage = "spawn", !.phase = "", !.pids = <<>>]
       IN  /\ pidFile' = r.file
           /\ tog' = Disturb([tog EXCEPT ![t] = next], TRUE, t)
           /\ proc' = IF next.stage = "kill" THEN StopNoted(proc) ELSE proc
           /\ Accessed(TRUE, t)
           /\ starts' = IF next.stage = "kill" THEN NoStarts ELSE StartsAfter(r.file)
           /\ UNCHANGED <<kills, stopped>>

\* killAllDaemons, lines 87-93: SIGTERM to every pid read.
ToggleSignal(t) ==
    /\ tog[t].stage = "signal"
    /\ proc' = Signalled(StopNoted(proc), tog[t].pids)
    /\ tog' = [tog EXCEPT ![t].stage = "remove", ![t].phase = "exists", ![t].pids = <<>>]
    /\ starts' = NoStarts
    /\ UNCHANGED <<pidFile, overlap, kills, stopped>>

\* killAllDaemons, line 95: removePidFile(), one call at a time; the toggle
\* ends after it (lines 115-117). stopped notes that killAllDaemons has
\* returned ("raced": while another process was in the middle of a registry
\* access), until the next appendDaemonPid.
ToggleRemove(t) ==
    /\ tog[t].stage = "remove"
    /\ IF tog[t].phase = "exists" /\ pidFile.exists
         THEN /\ tog' = Disturb([tog EXCEPT ![t].phase = "unlink"], TRUE, t)
              /\ UNCHANGED pidFile
              /\ UNCHANGED stopped
         ELSE /\ tog' = Disturb([tog EXCEPT ![t] = DoneToggle], TRUE, t)
              /\ pidFile' = IF tog[t].phase = "unlink" /\ pidFile.exists
                              THEN Unlinked(pidFile)
                            ELSE pidFile
              /\ stopped' = IF tog[t].phase = "unlink" /\ ~pidFile.exists THEN stopped
                            ELSE IF OthersMidAccess(TRUE, t) THEN "raced"
                            ELSE "clean"
    /\ proc' = StopNoted(proc)
    /\ starts' = NoStarts
    /\ Accessed(TRUE, t)
    /\ UNCHANGED kills

\* Lines 120-126: Bun.spawn starts the watcher under a pid that is free.
ToggleSpawn(t, p) ==
    /\ tog[t].stage = "spawn"
    /\ proc[p].stage = "free"
    /\ proc' = [proc EXCEPT ![p] = [FreeProc EXCEPT !.stage = "run"]]
    /\ tog' = [tog EXCEPT ![t].stage = "append", ![t].child = p]
    /\ UNCHANGED <<pidFile, overlap, kills, stopped, starts>>

\* Line 129: appendDaemonPid(proc.pid); the toggle ends after it.
ToggleAppend(t) ==
    /\ tog[t].stage = "append"
    /\ pidFile' = Appended(pidFile, tog[t].child)
    /\ proc' = [proc EXCEPT ![tog[t].child] =
                   IF @.stage = "free" THEN @
                   ELSE [@ EXCEPT !.start =
                            IF \E u \in ToggleIds : tog[u].stage \in {"kill", "signal", "remove"}
                              THEN "none"
                            ELSE IF tog[t].clean THEN "clean" ELSE "raced"]]
    /\ tog' = Disturb([tog EXCEPT ![t] = DoneToggle], TRUE, t)
    /\ stopped' = "none"
    /\ starts' = IF proc[tog[t].child].stage = "free" THEN StartsAfter(pidFile')
                  ELSE [pids |-> Append(starts.pids, tog[t].child),
                        clean |-> IF starts.pids = <<>> THEN EndsLine(pidFile)
                                  ELSE starts.clean]
    /\ Accessed(TRUE, t)
    /\ UNCHANGED kills

\* removeOwnPid (lines 65-74), one call at a time: getAllDaemonPids (stage
\* "rm1"), then the file is written without the own pid or removed (stage
\* "rm2"); process.exit(0) follows the last call, and a call that throws ends
\* the process as well.
WatcherRemoveOwnPid(p) ==
    /\ proc[p].stage \in {"rm1", "rm2"}
    /\ IF proc[p].stage = "rm1"
         THEN LET r == GetAllStep(proc[p].phase, proc[p].pids)
                  own == SelectSeq(r.pids, LAMBDA q : q # p)
              IN  /\ pidFile' = r.file
                  /\ proc' = [proc EXCEPT ![p] =
                        IF r.phase = "throw" THEN FreeProc
                        ELSE IF r.phase = "ret"
                          THEN [@ EXCEPT !.stage = "rm2", !.phase = "write", !.pids = own]
                        ELSE [@ EXCEPT !.phase = r.phase, !.pids = r.pids]]
         ELSE IF proc[p].phase = "write" /\ proc[p].pids = <<>> /\ pidFile.exists
           THEN /\ proc' = [proc EXCEPT ![p].phase = "unlink"]
                /\ UNCHANGED pidFile
         ELSE /\ pidFile' =
                   IF proc[p].phase = "write" /\ proc[p].pids # <<>>
                     THEN [exists |-> TRUE, content |-> Join(proc[p].pids)]
                   ELSE IF proc[p].phase = "unlink" /\ pidFile.exists THEN Unlinked(pidFile)
                   ELSE pidFile
              /\ proc' = [proc EXCEPT ![p] = FreeProc]
    /\ tog' = Disturb(tog, FALSE, p)
    /\ Accessed(FALSE, p)
    /\ starts' = StartsAfter(pidFile')
    /\ UNCHANGED <<kills, stopped>>

\* A watcher is killed without its handler running (SIGKILL, a crash, power
\* loss): the registry keeps its pid.
WatcherKilled(p) ==
    /\ proc[p].stage # "free"
    /\ kills < MaxKills
    /\ proc' = [proc EXCEPT ![p] = FreeProc]
    /\ kills' = kills + 1
    /\ starts' = [starts EXCEPT !.pids = SelectSeq(@, LAMBDA q : q # p)]
    /\ UNCHANGED <<pidFile, tog, overlap, stopped>>

\* A process of the same user that has nothing to do with the watcher starts
\* under a pid that is free; process.kill(pid, 0) (line 27) succeeds for it
\* as for a watcher.
OtherSpawn(p) ==
    /\ proc[p].stage = "free"
    /\ Cardinality({q \in Pids : proc[q].stage \in {"other", "otherSignalled"}}) < MaxOthers
    /\ proc' = [proc EXCEPT ![p] = [FreeProc EXCEPT !.stage = "other"]]
    /\ UNCHANGED <<pidFile, tog, overlap, kills, stopped, starts>>

\* A call of getAllDaemonPids (lines 35-52) made while no other process
\* touches the registry, one call on the file at a time; `before` keeps the
\* file the call found, and `any` what isAnyDaemonRunning (line 56) makes of
\* the list returned.
IdlePrune == [phase |-> "idle", pids |-> <<>>, before |-> NoFile, any |-> FALSE]

PruneStep ==
    /\ prune.phase \in {"exists", "read", "write", "unlink"}
    /\ LET r == GetAllStep(prune.phase, prune.pids)
       IN  /\ pidFile' = r.file
           /\ prune' = [prune EXCEPT !.phase = r.phase, !.pids = r.pids,
                                     !.any = r.phase = "ret" /\ DaemonRunning(r.pids)]
    /\ UNCHANGED <<proc, tog, overlap, kills, stopped, starts>>

\* No signal has reached the watcher whose playback is followed.
NoShut == [signalled |-> FALSE, player |-> Null, dip |-> IdleDip]

\* The registry files the program writes: pids written by appendDaemonPid and
\* by pids.join, so never empty and without empty lines.
Chars == Pids \cup {NL}
Contents ==
    {c \in UNION {[1..n -> Chars] : n \in 1..MaxFileLen} :
        /\ c[1] # NL
        /\ \A i \in 1..(Len(c) - 1) : ~(c[i] = NL /\ c[i + 1] = NL)}

ToggleIdle ==
    /\ prune = IdlePrune
    /\ shut = NoShut
    /\ pidFile = NoFile
    /\ proc = [p \in Pids |-> FreeProc]
    /\ tog = [t \in ToggleIds |-> IdleToggle]
    /\ overlap = FALSE
    /\ kills = 0
    /\ stopped = "none"
    /\ starts = NoStarts

(***************************************************************************)
(* SpecTts: any interleaving of playAudio and cancelSpeech calls           *)
(***************************************************************************)
\* The parts a specification does not use stay as they are at process start.
DbIdle ==
    /\ nowPlaying = Null
    /\ lastTrackId = Null

InitTts ==
    /\ TtsIdle
    /\ spotifyVolume = DJ_SPEAKING_VOLUME
    /\ FadeIdle
    /\ LoopIdle /\ DbIdle
    /\ ToggleIdle

TtsGenerate == (\E c \in PlayIds : GenerateSpeech(c, TRUE)) /\ UNCHANGED exceptTts
TtsPlayBegin == (\E c \in PlayIds : PlayAudioBegin(c)) /\ UNCHANGED exceptTts
TtsPlayCancelUnlinked == (\E c \in PlayIds : PlayAudioCancelUnlinked(c)) /\ UNCHANGED exceptTts
TtsPlayInstall == (\E c \in PlayIds, spawned \in BOOLEAN : PlayAudioInstall(c, spawned)) /\ UNCHANGED exceptTts
TtsPlayerExit == (\E c \in PlayIds, ok \in BOOLEAN : PlayerExit(c, ok)) /\ UNCHANGED exceptTts
TtsPlayExited == (\E c \in PlayIds : PlayAudioExited(c)) /\ UNCHANGED exceptTts
TtsPlayReturn == (\E c \in PlayIds : PlayAudioReturn(c)) /\ UNCHANGED exceptTts
TtsCancelBegin == (\E k \in CancelIds : CancelSpeechBegin(k)) /\ UNCHANGED exceptTts
TtsCancelUnlinked == (\E k \in CancelIds : CancelSpeechUnlinked(k)) /\ UNCHANGED exceptTts

NextTts ==
    \/ TtsGenerate
    \/ TtsPlayBegin
    \/ TtsPlayCancelUnlinked
    \/ TtsPlayInstall
    \/ TtsPlayerExit
    \/ TtsPlayExited
    \/ TtsPlayReturn
    \/ TtsCancelBegin
    \/ TtsCancelUnlinked

SpecTts == InitTts /\ [][NextTts]_vars

(***************************************************************************)
(* SpecFade: one withVolumeDip call under arbitrary delays                 *)
(***************************************************************************)
InitFade ==
    /\ TtsIdle
    /\ spotifyVolume \in Volumes
    /\ FadeIdle
    /\ LoopIdle /\ DbIdle
    /\ ToggleIdle

FadeDipBegin == (\E ok \in BOOLEAN : DipBegin(DJ_SPEAKING_VOLUME, ok)) /\ UNCHANGED exceptFade
FadeSet == (\E d \in Jitter, ok \in BOOLEAN : FadeSetDone(d, ok)) /\ UNCHANGED exceptFade
FadeSleep == (\E j \in Jitter : FadeSleepDone(j)) /\ UNCHANGED exceptFade
FadeFinal == (\E ok \in BOOLEAN : FadeFinalDone(ok)) /\ UNCHANGED exceptFade
FadeFn == (\E ok \in BOOLEAN : DipFnSettled(ok)) /\ UNCHANGED exceptFade

NextFade ==
    \/ FadeDipBegin
    \/ FadeSet
    \/ FadeSleep
    \/ FadeFinal
    \/ FadeFn

SpecFade == InitFade /\ [][NextFade]_vars

(***************************************************************************)
(* SpecLoop: one watcher process running runDjLoop                         *)
(***************************************************************************)
InitLoop ==
    /\ TtsIdle
    /\ spotifyVolume \in Volumes
    /\ FadeIdle
    /\ LoopIdle
    /\ nowPlaying \in TrackIds \cup {Null}
    /\ lastTrackId \in TrackIds \cup {Null}
    /\ ToggleIdle

loopExceptSession == <<nowPlaying, lastTrackId, currentlyAnnouncingTrack, loop, midSpeech>>

WatchSource == (\E t \in TrackIds \cup {Null} : SourceChange(t)) /\ UNCHANGED <<ttsVars, fadeVars>> /\ UNCHANGED <<toggleVars, extraVars>>
WatchPolled == (\E ok \in BOOLEAN : LoopPolled(ok)) /\ UNCHANGED fadeVars /\ UNCHANGED <<toggleVars, extraVars>>
WatchResumed == LoopResumed /\ UNCHANGED fadeVars /\ UNCHANGED <<toggleVars, extraVars>>
WatchCommentary == (\E ok \in BOOLEAN : LoopCommentary(ok)) /\ UNCHANGED <<ttsVars, fadeVars>> /\ UNCHANGED <<toggleVars, extraVars>>
WatchSynth == (\E c \in PlayIds, ok \in BOOLEAN : LoopSynth(c, ok)) /\ UNCHANGED fadeVars /\ UNCHANGED <<toggleVars, extraVars>>
WatchDipBegin == (\E ok \in BOOLEAN : LoopDipBegin(ok)) /\ UNCHANGED <<ttsVars, loopVars>> /\ UNCHANGED <<toggleVars, extraVars>>
WatchFadeSet == (\E d \in Jitter, ok \in BOOLEAN : FadeSetDone(d, ok)) /\ UNCHANGED <<ttsVars, loopVars>> /\ UNCHANGED <<toggleVars, extraVars>>
WatchFadeSleep == (\E j \in Jitter : FadeSleepDone(j)) /\ UNCHANGED <<ttsVars, loopVars>> /\ UNCHANGED <<toggleVars, extraVars>>
WatchFadeFinal == (\E ok \in BOOLEAN : FadeFinalDone(ok)) /\ UNCHANGED <<ttsVars, loopVars>> /\ UNCHANGED <<toggleVars, extraVars>>
WatchPlayBegin == LoopPlayBegin /\ UNCHANGED <<fadeVars, loopVars>> /\ UNCHANGED <<toggleVars, extraVars>>
WatchPlayInstall == (\E spawned \in BOOLEAN : LoopPlayInstall(spawned)) /\ UNCHANGED <<fadeVars, loopExceptSession>> /\ UNCHANGED <<toggleVars, extraVars>>
WatchPlayerExit == (\E c \in PlayIds, ok \in BOOLEAN : PlayerExit(c, ok)) /\ UNCHANGED <<fadeVars, loopVars>> /\ UNCHANGED <<toggleVars, extraVars>>
WatchPlayExited == (\E c \in PlayIds : PlayAudioExited(c)) /\ UNCHANGED <<fadeVars, loopVars>> /\ UNCHANGED <<toggleVars, extraVars>>
WatchPlayUnlinked == (\E c \in PlayIds : LoopPlayUnlinked(c)) /\ UNCHANGED <<fadeVars, loopVars>> /\ UNCHANGED <<toggleVars, extraVars>>
WatchFnSettled == LoopFnSettled /\ UNCHANGED <<ttsVars, loopVars>> /\ UNCHANGED <<toggleVars, extraVars>>
WatchDipEnded == LoopDipEnded /\ UNCHANGED ttsVars /\ UNCHANGED <<toggleVars, extraVars>>

NextLoop ==
    \/ WatchSource
    \/ WatchPolled
    \/ WatchResumed
    \/ WatchCommentary
    \/ WatchSynth
    \/ WatchDipBegin
    \/ WatchFadeSet
    \/ WatchFadeSleep
    \/ WatchFadeFinal
    \/ WatchPlayBegin
    \/ WatchPlayInstall
    \/ WatchPlayerExit
    \/ WatchPlayExited
    \/ WatchPlayUnlinked
    \/ WatchFnSettled
    \/ WatchDipEnded

SpecLoop == InitLoop /\ [][NextLoop]_vars

(***************************************************************************)
(* SpecToggle: toggle invocations, watchers and the registry file          *)
(***************************************************************************)
InitToggle ==
    /\ TtsIdle
    /\ spotifyVolume = DJ_SPEAKING_VOLUME
    /\ FadeIdle
    /\ LoopIdle /\ DbIdle
    /\ ToggleIdle

SupInvoke == (\E t \in ToggleIds : ToggleInvoke(t)) /\ UNCHANGED exceptToggle
SupGetAll == (\E t \in ToggleIds : ToggleGetAll(t)) /\ UNCHANGED exceptToggle
SupSignal == (\E t \in ToggleIds : ToggleSignal(t)) /\ UNCHANGED exceptToggle
SupRemove == (\E t \in ToggleIds : ToggleRemove(t)) /\ UNCHANGED exceptToggle
SupSpawn == (\E t \in ToggleIds, p \in Pids : ToggleSpawn(t, p)) /\ UNCHANGED exceptToggle
SupAppend == (\E t \in ToggleIds : ToggleAppend(t)) /\ UNCHANGED exceptToggle
SupRemoveOwnPid == (\E p \in Pids : WatcherRemoveOwnPid(p)) /\ UNCHANGED exceptToggle
SupKilled == (\E p \in Pids : WatcherKilled(p)) /\ UNCHANGED exceptToggle

NextToggle ==
    \/ SupInvoke
    \/ SupGetAll
    \/ SupSignal
    \/ SupRemove
    \/ SupSpawn
    \/ SupAppend
    \/ SupRemoveOwnPid
    \/ SupKilled

SpecToggle == InitToggle /\ [][NextToggle]_vars

(***************************************************************************)
(* SpecReuse: SpecToggle with processes unrelated to the watcher, which    *)
(* may take the pid of a watcher that is gone                              *)
(***************************************************************************)
ReuseOther == (\E p \in Pids : OtherSpawn(p)) /\ UNCHANGED exceptToggle

NextReuse ==
    \/ NextToggle
    \/ ReuseOther

SpecReuse == InitToggle /\ [][NextReuse]_vars

(***************************************************************************)
(* SpecPrune: one call of getAllDaemonPids on every registry file and      *)
(* every set of live processes                                             *)
(***************************************************************************)
InitPrune ==
    /\ TtsIdle
    /\ spotifyVolume = DJ_SPEAKING_VOLUME
    /\ FadeIdle
    /\ LoopIdle /\ DbIdle
    /\ pidFile \in {NoFile} \cup {[exists |-> TRUE, content |-> c] : c \in Contents}
    /\ proc \in [Pids -> {FreeProc, [FreeProc EXCEPT !.stage = "run"]}]
    /\ prune = [IdlePrune EXCEPT !.phase = "exists", !.before = pidFile]
    /\ tog = [t \in ToggleIds |-> IdleToggle]
    /\ overlap = FALSE
    /\ kills = 0
    /\ stopped = "none"
    /\ starts = NoStarts
    /\ shut = NoShut

PruneCall == PruneStep /\ UNCHANGED <<ttsVars, fadeVars, loopVars, shut>>

NextPrune == PruneCall

SpecPrune == InitPrune /\ [][NextPrune]_vars

(***************************************************************************)
(* SpecShutdown: registered watchers receive SIGTERM or SIGINT; watcher 1  *)
(* is followed with its loop and its playback, the others with their       *)
(* registry accesses only                                                  *)
(***************************************************************************)
RECURSIVE Registered(_)
Registered(n) == IF n = 0 THEN NoFile ELSE Appended(Registered(n - 1), n)

InitShutdown ==
    /\ TtsIdle
    /\ spotifyVolume = 100
    /\ FadeIdle
    /\ LoopIdle /\ DbIdle
    /\ prune = IdlePrune
    /\ shut = NoShut
    /\ pidFile = Registered(MaxPid)
    /\ proc = [p \in Pids |-> [FreeProc EXCEPT !.stage = "run"]]
    /\ tog = [t \in ToggleIds |-> IdleToggle]
    /\ overlap = FALSE
    /\ kills = 0
    /\ stopped = "none"
    /\ starts = NoStarts

\* The loop of watcher 1 goes on until the handler reaches its synchronous
\* removeOwnPid and process.exit (lines 145-146).
ShutAlive == proc[1].stage \in {"run", "handler"}

\* One step of the loop of watcher 1; every volume fade is followed as one
\* step that used up the whole FADE_DURATION_MS.
ShutFadeSet ==
    /\ \E ok \in BOOLEAN : FadeSetDone(FADE_DURATION_MS, ok)
    /\ UNCHANGED <<ttsVars, loopVars, toggleVars, extraVars>>

LoopSteps ==
    \/ WatchSource
    \/ WatchPolled
    \/ WatchResumed
    \/ WatchCommentary
    \/ WatchSynth
    \/ WatchDipBegin
    \/ ShutFadeSet
    \/ WatchFadeFinal
    \/ WatchPlayBegin
    \/ WatchPlayInstall
    \/ WatchPlayerExit
    \/ WatchPlayExited
    \/ WatchPlayUnlinked
    \/ WatchFnSettled
    \/ WatchDipEnded

ShutLoop == ShutAlive /\ LoopSteps

\* The handler of watcher 1 (lines 143-147, 149-153) runs up to the first
\* await inside cancelSpeech (part_001 lines 133-142).
ShutSignal ==
    /\ proc[1].stage = "run"
    /\ loop.pc # "crashed"
    /\ \E k \in CancelIds : CancelSpeechBegin(k)
    /\ shut' = [signalled |-> TRUE, player |-> currentProcess, dip |-> dip]
    /\ proc' = [proc EXCEPT ![1] = [@ EXCEPT
                    !.stage = IF CancelHeadTarget # Null THEN "handler" ELSE "rm1",
                    !.phase = "exists"]]
    /\ UNCHANGED <<fadeVars, loopVars, pidFile, tog, overlap, kills, stopped, starts, prune>>

\* The unlink awaited by cancelSpeech is done; the handler goes on to
\* removeOwnPid.
ShutUnlinked ==
    /\ proc[1].stage = "handler"
    /\ \E k \in CancelIds : CancelSpeechUnlinked(k)
    /\ proc' = [proc EXCEPT ![1].stage = "rm1"]
    /\ UNCHANGED <<fadeVars, loopVars, pidFile, tog, overlap, kills, stopped, starts, extraVars>>

\* Another watcher is signalled; it has no playback under way.
ShutOtherSignal ==
    /\ \E p \in Pids \ {1} :
          /\ proc[p].stage = "run"
          /\ proc' = Signalled(proc, <<p>>)
    /\ UNCHANGED <<pidFile, tog, overlap, kills, stopped, starts>>
    /\ UNCHANGED exceptToggle

NextShutdown ==
    \/ ShutLoop
    \/ ShutSignal
    \/ ShutUnlinked
    \/ ShutOtherSignal
    \/ SupRemoveOwnPid

SpecShutdown == InitShutdown /\ [][NextShutdown]_vars

(***************************************************************************)
(* SpecRestart: a watcher that ends during generation (killed, or by the   *)
(* request throwing out of runDjLoop) and is started again; the marker is  *)
(* kept by the database file (part_000 lines 6-20, 72-79)                  *)
(***************************************************************************)
\* The process ends while generateDjCommentary or generateSpeech is pending
\* or has thrown, and a new watcher process starts runDjLoop (toggle.ts
\* 101-105, 141-155) with the module state of tts.ts and toggle.ts fresh.
WatchRestart ==
    /\ \/ loop.pc \in {"commentary", "synth"}
       \/ loop.pc = "crashed" /\ loop.thrown \in {"generateDjCommentary", "generateSpeech"}
    /\ loop' = IdleLoop
    /\ currentlyAnnouncingTrack' = NameOf(Null)
    /\ session' = [session EXCEPT !.restart = TRUE]
    /\ midSpeech' = NoMidSpeech
    /\ currentProcess' = Null
    /\ currentAudioPath' = Null
    /\ playCall' = [c \in PlayIds |-> IdleCall]
    /\ UNCHANGED <<nowPlaying, lastTrackId, player, files, cancelCall>>
    /\ UNCHANGED <<fadeVars, toggleVars, extraVars>>

NextRestart ==
    \/ LoopSteps
    \/ WatchRestart

SpecRestart == InitLoop /\ [][NextRestart]_vars

(***************************************************************************)
(* Claims about tts.ts, checked under SpecTts                              *)
(***************************************************************************)

LivePlayers == {c \in PlayIds : player[c] = "running"}

\* C4: under any interleaving of playAudio and cancelSpeech calls, at most one
\* player subprocess spawned by playAudio is alive at any time.
C4_AtMostOneLivePlayer == Cardinality(LivePlayers) <= 1

\* C5: isSpeaking() is true exactly when a player subprocess spawned by
\* playAudio is still running and has not been cancelled: the process recorded
\* in currentProcess belongs to a call still awaiting it and was not killed,
\* and no subprocess is running while isSpeaking() is false.
C5_IsSpeakingIffLive ==
    /\ isSpeaking =>
          /\ playCall[currentProcess].pc = "wait"
          /\ player[currentProcess] \in {"running", "exit0", "exitErr"}
    /\ ~isSpeaking => LivePlayers = {}

\* The value playAudio returns is fixed at line 182 and returned at line 189.
Returning(c) == playCall[c].pc \in {"unlink", "done"}

\* C6: playAudio returns true only if its own subprocess exited with code 0
\* and no other call replaced or cleared the session while it was playing; a
\* playback that was killed or exited non-zero returns false.
C6_TrueOnlyIfOwnCleanExit ==
    \A c \in PlayIds :
        Returning(c) =>
            /\ playCall[c].wasCompleted => (player[c] = "exit0" /\ ~playCall[c].swapped)
            /\ player[c] \in {"killed", "exitErr"} => ~playCall[c].wasCompleted

\* C6 witness: one call returns true, and another call whose subprocess exited
\* with code 0 after its session was swapped out returns false.
C6_Witness ==
    \E c, d \in PlayIds :
        /\ Returning(c) /\ playCall[c].wasCompleted
        /\ Returning(d) /\ player[d] = "exit0" /\ playCall[d].swapped
        /\ ~playCall[d].wasCompleted

\* C7: on every exit path of playAudio (normal completion, cancellation,
\* non-zero exit, failure to spawn), when the call ends the session it
\* installed is cleared and its temp audio file no longer exists.
C7_CleanupOnEveryExit ==
    \A c \in PlayIds :
        playCall[c].pc \in {"done", "threw"} =>
            /\ currentProcess # c
            /\ currentAudioPath # c
            /\ c \notin files

(***************************************************************************)
(* Claims about spotify.ts, checked under SpecFade                         *)
(***************************************************************************)

\* C8: if the action wrapped by withVolumeDip throws, the fade back up has run
\* and the last volume set is the volume read at entry when the error
\* propagates to the caller.
C8_RestoredWhenFnThrows ==
    dip.pc = "threwFn" =>
        /\ fade.pc = "done" /\ fade.from = dip.dipTo /\ fade.to = dip.originalVolume
        /\ lastSet = dip.originalVolume
        /\ spotifyVolume = dip.originalVolume

\* C8 witness: the action threw with the volume dipped away from where it was.
C8_Witness ==
    /\ dip.pc = "threwFn" /\ dip.fnThrew
    /\ dip.originalVolume # dip.dipTo

\* C9: for every schedule of delays, the last volume-set call issued by
\* fadeVolume(from, to) sets exactly `to`.
C9_FinalSetIsTo == fade.pc = "done" => lastSet = fade.to

\* C9 witness: fadeVolume(50, 0) has ended after running behind schedule.
C9_Witness ==
    /\ fade.pc = "done" /\ fade.from = 50 /\ fade.to = 0
    /\ fade.late

(***************************************************************************)
(* Claims about runDjLoop, checked under SpecLoop                          *)
(***************************************************************************)

\* C2: in a single watcher, a track id is announced (commentary generated,
\* playback started) at most once until a poll observes a different track id,
\* whatever polls of the same id and of nothing playing lie in between.
C2_AnnouncedOncePerSession == session.gen <= 1 /\ session.play <= 1

\* C2 witness: a track was announced and played once, and then polled again,
\* with a poll of nothing playing in between.
C2_Witness ==
    /\ session.gen = 1 /\ session.play = 1
    /\ session.repeat /\ session.nothing
    /\ loop.pc = "sleep" /\ loop.track = session.id

\* The watcher never finds a playback in progress when it polls: a tick
\* awaits withVolumeDip, and with it playAudio, before the next poll.
LoopNeverSeesSpeech ==
    /\ loop.pc \in {"poll", "sleep", "commentary", "synth"} => ~isSpeaking
    /\ ~loop.wasInterrupted
    /\ loop.pc \notin {"cancelUnlink", "cancelRet"}

\* C3: when the source changes from track 1 to track 2 while the intro of
\* track 1 is playing, that playback is killed and its file removed before the
\* new session starts, and the commentary request for track 2 carries
\* wasInterrupted = true and interruptedTrack = track 1's name and artist.
C3_InterruptsMidSpeech ==
    (loop.pc = "commentary" /\ midSpeech.from # Null /\ midSpeech.to = loop.track) =>
        /\ loop.ctx = [wasInterrupted |-> TRUE, interruptedTrack |-> NameOf(midSpeech.from)]
        /\ player[midSpeech.call] = "killed"
        /\ midSpeech.call \notin files

\* v lies between a and b, the ends included.
Between(a, v, b) == (a <= v /\ v <= b) \/ (b <= v /\ v <= a)

\* The volume of an exact progress of step / FADE_STEPS, as setSpotifyVolume
\* would send it.
ScheduledVolume(from, to, step) == Clamped(FADE_STEPS * from + (to - from) * step, FADE_STEPS)

\* A volume-set call of the loop of fadeVolume has returned in this step.
StepIssued == fade.pc = "set" /\ fade'.pc # "failed" /\ fade' # fade

\* C21: for every schedule of delays the volume issued at step k of n lies
\* between the volume of progress k/n and `to`, and every issued volume lies
\* between the one issued before it (`from` at the first step) and `to`.
C21_FadeOnSchedule ==
    [][/\ StepIssued =>
            /\ Between(ScheduledVolume(fade.from, fade.to, fade.step), lastSet', fade.to)
            /\ Between(IF fade.step = 1 THEN fade.from ELSE lastSet, lastSet', fade.to)
       /\ (fade.pc = "final" /\ fade'.pc = "done") => Between(lastSet, lastSet', fade.to)]_vars

\* A step was issued behind schedule: its volume is ahead of the one of its
\* step count and short of `to`.
C21_Witness ==
    /\ fade.pc = "set" /\ fade.step >= 2 /\ fade.late
    /\ lastSet # ScheduledVolume(fade.from, fade.to, fade.step - 1)
    /\ lastSet # fade.to
    /\ Between(ScheduledVolume(fade.from, fade.to, fade.step - 1), lastSet, fade.to)

(***************************************************************************)
(* Claims about toggle.ts                                                  *)
(***************************************************************************)
\* The watchers that run runDjLoop and have not been told to stop
RunningWatchers == {p \in Pids : proc[p].stage = "run"}

\* C1: under any interleaving of toggle invocations, at most one live
\* watcher running runDjLoop exists at any time.
C1_AtMostOneWatcher == Cardinality(RunningWatchers) <= 1

\* C1, amended: as long as no two processes' accesses to the registry have
\* overlapped, at most one live watcher that has not been signalled to stop
\* exists.
C1_AtMostOneWatcherUnlessOverlap == ~overlap => Cardinality(RunningWatchers) <= 1

\* A second toggle has found the running watcher and signalled it; the next
\* one has started a new watcher while the old one is still shutting down.
C1_Witness ==
    /\ ~overlap
    /\ \E p, q \in Pids :
          /\ proc[p].stage = "run" /\ proc[p].start = "clean"
          /\ proc[q].stage = "rm1"

\* A watcher that a start has registered, alive, with no stop since
Covered(p) == proc[p].stage = "run" /\ proc[p].start # "none"

\* C10: after a start, isAnyDaemonRunning() returns true for as long as the
\* watcher is alive and no stop has been executed, also when other processes
\* read, prune and rewrite the registry concurrently with the append.
C10_RunningAfterStart == \A p \in Pids : Covered(p) => isAnyDaemonRunning

\* C10, amended: after a start whose registry access (from its read of the
\* registry to its append) overlapped no other process's access,
\* isAnyDaemonRunning() returns true for as long as the watcher is alive and
\* no stop has been executed.
C10_RunningAfterUndisturbedStart ==
    \A p \in Pids : Covered(p) /\ proc[p].start = "clean" => isAnyDaemonRunning

\* The registry has been rewritten (no trailing newline) by another process
\* after the start, and still names the watcher.
C10_Witness ==
    \E p \in Pids :
        /\ Covered(p) /\ proc[p].start = "clean"
        /\ pidFile.exists /\ pidFile.content = Digits(p)

\* C11: after killAllDaemons returns, isAnyDaemonRunning() returns false and
\* the registry file is empty or absent in every state until the next start,
\* also while the signalled watchers run their shutdown handlers.
C11_StoppedStaysEmpty ==
    stopped # "none" => ~isAnyDaemonRunning /\ pidFile.content = <<>>

\* C11, amended: after a killAllDaemons that returns while no other process
\* is in the middle of a registry access, the registry file is absent and
\* isAnyDaemonRunning() returns false in every state until the next start
\* appends a pid.
C11_StoppedStaysEmptyUnlessRaced ==
    stopped = "clean" => ~isAnyDaemonRunning /\ ~pidFile.exists

\* A signalled watcher is running removeOwnPid after the stop returned.
C11_Witness ==
    /\ stopped = "clean"
    /\ \E p \in Pids : proc[p].stage = "rm2"

(***************************************************************************)
(* Claims about getAllDaemonPids, checked under SpecPrune                  *)
(***************************************************************************)
\* The identifiers a registry file holds, read off its characters: every
\* maximal run of digits is one identifier, in the order of the file.
RunStarts(chars) ==
    {i \in 1..Len(chars) : chars[i] # NL /\ (i = 1 \/ chars[i - 1] = NL)}
RunEnd(chars, i) ==
    CHOOSE j \in i..Len(chars) :
        /\ \A k \in i..j : chars[k] # NL
        /\ (j = Len(chars) \/ chars[j + 1] = NL)
RECURSIVE Pow10(_)
Pow10(n) == IF n = 0 THEN 1 ELSE 10 * Pow10(n - 1)
RECURSIVE SumOver(_, _, _)
SumOver(chars, i, j) ==
    IF i > j THEN 0 ELSE chars[i] * Pow10(j - i) + SumOver(chars, i + 1, j)
RECURSIVE InOrder(_, _)
InOrder(chars, runs) ==
    IF runs = {} THEN <<>>
    ELSE LET i == CHOOSE m \in runs : \A k \in runs : m <= k
         IN  <<SumOver(chars, i, RunEnd(chars, i))>> \o InOrder(chars, runs \ {i})
Identifiers(file) == IF file.exists THEN InOrder(file.content, RunStarts(file.content)) ELSE <<>>
LiveIdentifiers(file) ==
    SelectSeq(Identifiers(file), LAMBDA n : n \in Pids /\ proc[n].stage # "free")

\* C12: getAllDaemonPids returns exactly the identifiers of the registry file
\* whose process is live, in file order, and leaves the file holding exactly
\* those identifiers, or removes it when none is live; isAnyDaemonRunning()
\* is true iff that list is non-empty.
C12_PruneExact ==
    prune.phase = "ret" =>
        /\ prune.pids = LiveIdentifiers(prune.before)
        /\ IF prune.pids = <<>> THEN ~pidFile.exists
           ELSE pidFile.exists /\ Identifiers(pidFile) = prune.pids
        /\ prune.any <=> prune.pids # <<>>

\* A call that found two live identifiers and a dead one, and dropped the
\* dead one from the file.
C12_Witness ==
    /\ prune.phase = "ret"
    /\ Len(prune.pids) = 2
    /\ Len(Identifiers(prune.before)) > 2
    /\ pidFile # prune.before

(***************************************************************************)
(* Claims about starts, checked under SpecToggle                           *)
(***************************************************************************)

RegistryIds == {Identifiers(pidFile)[i] : i \in 1..Len(Identifiers(pidFile))}

\* The last two starts with no stop in between spawned two watchers that
\* are both running.
TwoStarts ==
    /\ Len(starts.pids) >= 2
    /\ starts.pids[Len(starts.pids) - 1] # starts.pids[Len(starts.pids)]
    /\ proc[starts.pids[Len(starts.pids) - 1]].stage = "run"
    /\ proc[starts.pids[Len(starts.pids)]].stage = "run"
BothKept ==
    /\ starts.pids[Len(starts.pids) - 1] \in RegistryIds
    /\ starts.pids[Len(starts.pids)] \in RegistryIds

C22_OnlyAppendedPids ==
    \A i \in 1..Len(Identifiers(pidFile)) : Identifiers(pidFile)[i] \in Pids

(***************************************************************************)
(* Claims about the liveness probe, checked under SpecReuse                *)
(***************************************************************************)

\* The processes that run, or ran until their handler started, runDjLoop.
IsWatcher(n) == n \in Pids /\ proc[n].stage \in {"run", "rm1", "rm2"}

\* killAllDaemons has sent SIGTERM to no process that is not a watcher.
OnlyWatchersSignalled == \A p \in Pids : proc[p].stage # "otherSignalled"

\* C20: every identifier of the registry that passes the liveness probe is
\* the pid of a watcher process, and killAllDaemons has sent SIGTERM to
\* watcher processes only, also when the pid of a watcher that was killed
\* has been taken by an unrelated process.
C20_LiveIdsAreWatchers ==
    /\ \A i \in 1..Len(Identifiers(pidFile)) :
          isProcessRunning(Identifiers(pidFile)[i]) => IsWatcher(Identifiers(pidFile)[i])
    /\ OnlyWatchersSignalled

(***************************************************************************)
(* Claims about failures inside a tick, checked under SpecLoop             *)
(***************************************************************************)

\* The loop still runs: it is at one of its awaits, none of which has thrown
\* out of runDjLoop.
LoopRuns == loop.pc # "crashed"

\* C14: when generateDjCommentary or generateSpeech fails, only the cycle
\* is aborted: the loop keeps running, the marker keeps the id of the failed
\* track and no playback of it is under way.
C14_GenerationFailureSkips ==
    loop.thrown \in {"generateDjCommentary", "generateSpeech"} =>
        LoopRuns /\ lastTrackId = loop.track /\ ~isSpeaking

\* C15: when getCurrentTrack fails, the tick is treated as nothing playing
\* and the loop goes on with the next tick.
C15_PollFailureIsNothingPlaying ==
    loop.thrown = "getCurrentTrack" => LoopRuns /\ loop.pc \in {"sleep", "poll"}

\* A step that issues or completes a volume-set call, moves withVolumeDip or
\* starts a player subprocess.
VolumeOrPlayerStep ==
    \/ fade' # fade
    \/ dip' # dip
    \/ spotifyVolume' # spotifyVolume
    \/ lastSet' # lastSet
    \/ \E c \in PlayIds : player[c] # "running" /\ player'[c] = "running"

\* generateSpeech of the current cycle has returned a path.
Synthesized == loop.pc = "dip" /\ loop.call # Null /\ loop.thrown = ""

\* C17: in every cycle no volume-set call is issued until the synthesis of
\* that cycle has completed; when the synthesis fails the cycle changes no
\* volume and starts no player subprocess.
C17_NoDipBeforeSynthesis == [][VolumeOrPlayerStep => Synthesized]_vars

C17_Witness ==
    /\ loop.thrown = "generateSpeech"
    /\ dip = IdleDip /\ fade = IdleFade
    /\ LivePlayers = {}
    /\ session.play = 0

\* The work of a tick that is still in flight: a playAudio call that has not
\* settled, a fade or a dip under way, a player subprocess alive.
PlayInFlight == \E c \in PlayIds : playCall[c].pc \in {"cancelUnlink", "cancelRet", "wait", "unlink"}
DipInFlight == dip # IdleDip \/ fade # IdleFade

\* C19: ticks never overlap: while the watcher polls the track source, or
\* sleeps before the next poll, no generation, fade or playback of an
\* earlier tick is in flight.
C19_TicksNeverOverlap ==
    loop.pc \in {"poll", "sleep"} => ~PlayInFlight /\ ~DipInFlight /\ LivePlayers = {}

\* A poll follows a tick that has played an introduction.
C19_Witness ==
    /\ loop.pc = "poll"
    /\ session.play = 1
    /\ lastSet # NoVolume
    /\ \E c \in PlayIds : playCall[c].pc = "done"

(***************************************************************************)
(* Claims about what a terminated watcher leaves behind, checked under     *)
(* SpecShutdown                                                            *)
(***************************************************************************)

\* The signal arrived while a volume dip was in effect.
DipInEffect(d) == d.pc \in {"fadeDown", "fn", "fadeUp"}

\* C23: a watcher terminated by SIGTERM or SIGINT while a volume dip is in
\* effect has exited with the player volume back at its level before the dip.
C23_VolumeRestoredAtExit ==
    (shut.signalled /\ proc[1].stage = "free" /\ DipInEffect(shut.dip)) =>
        spotifyVolume = shut.dip.originalVolume

\* C24: every temp file written by generateSpeech is deleted when its cycle
\* has ended, normally or by an error thrown before playAudio was called,
\* and when the watcher has exited after SIGTERM or SIGINT.
C24_NoTempFileLeft ==
    (loop.pc \in {"sleep", "poll", "crashed"} \/ (shut.signalled /\ proc[1].stage = "free")) =>
        files = {}

(***************************************************************************)
(* Claims about the marker, checked under SpecRestart                      *)
(***************************************************************************)

\* C18: the marker holds the new track id while the commentary and the
\* synthesis requests are pending, it is not rolled back while the same id
\* is polled, and after a crash or a restart during generation the same id
\* starts no second announcement.
C18_MarkerSetBeforeGeneration ==
    /\ loop.pc \in {"commentary", "synth"} => loop.track # Null /\ lastTrackId = loop.track
    /\ session.gen >= 1 => lastTrackId = session.id
    /\ session.restart => session.gen = 1

\* The watcher was restarted during the generation for a track and has
\* polled the same track again since.
C18_Witness ==
    /\ session.restart /\ session.repeat
    /\ session.gen = 1 /\ session.play = 0
    /\ loop.pc = "sleep" /\ loop.track = session.id

(***************************************************************************)
(* Claims about the signal handlers, checked under SpecShutdown            *)
(***************************************************************************)

Exited == shut.signalled /\ proc[1].stage = "free"
OthersKept == \A q \in Pids \ {1} : proc[q].stage = "run" => q \in RegistryIds

====
